---- MODULE Spec2Model ----
(***************************************************************************)
(* terraform-provider-lima: the lima_disk and lima_instance resources.     *)
(*                                                                         *)
(* One behaviour follows ONE managed resource (a lima_disk or a            *)
(* lima_instance; the two resource types share no state).  Every handler   *)
(* (Create, Read, Update, Delete, ImportState) is one atomic step: all are *)
(* synchronous and run their limactl commands one after the other.  The    *)
(* exit status of every limactl command, the output of the listing         *)
(* command, and the moment at which the caller cancels the call's context, *)
(* are inputs of the step.                                                 *)
(*                                                                         *)
(* Encoding.  A framework value (types.String, types.Int64, types.Float64, *)
(* types.Bool, types.List) is a sequence: <<>> is the null value and <<v>> *)
(* the known value v.  The persisted Terraform state is <<>> when the      *)
(* resource is not in the state and <<record>> when it is.  Command        *)
(* arguments are strings, built the way the handlers build them.  Sizes    *)
(* and counts are whole numbers, for which %g and %d print the same digits.*)
(***************************************************************************)
EXTENDS Integers, Sequences, FiniteSets, TLC

VARIABLES
    rtype,  \* resource type under management: "lima_disk" or "lima_instance"
    state,  \* persisted Terraform state of the resource: <<>> or <<record>>
    ext,    \* the object of that name inside limactl: "absent"; a disk that
            \* exists is "present", an instance "stopped" or "running"
    last    \* the most recent handler call: request, commands run, diagnostics, log;
            \* "follows" is the configuration of the successful Create that a
            \* Read follows immediately, "cancelled" the number of the command
            \* during which the caller cancelled the call (0: not cancelled), and
            \* "retry" says that the call repeats an Update that failed half-way

vars == <<rtype, state, ext, last>>

-----------------------------------------------------------------------------
(* Framework values *)

Null == <<>>

Some(v) == <<v>>

IsNull(x) == x = <<>>

\* ValueString(), ValueBool(), ValueInt64(), ValueFloat64(): the zero value for null
ValueString(x) == IF IsNull(x) THEN "" ELSE x[1]

ValueBool(x) == IF IsNull(x) THEN FALSE ELSE x[1]

ValueNum(x) == IF IsNull(x) THEN 0 ELSE x[1]

\* len(list.Elements()): 0 for a null list
Elements(x) == IF IsNull(x) THEN <<>> ELSE x[1]

-----------------------------------------------------------------------------
(* Formatting: fmt.Sprintf("%d") and fmt.Sprintf("%g") of whole numbers *)

Digits == <<"0", "1", "2", "3", "4", "5", "6", "7", "8", "9">>

RECURSIVE Itoa(_)
Itoa(n) == IF n < 10 THEN Digits[n + 1] ELSE Itoa(n \div 10) \o Digits[(n % 10) + 1]

\* strings.HasPrefix, strings.HasSuffix
HasPrefix(s, p) == Len(s) >= Len(p) /\ SubSeq(s, 1, Len(p)) = p

HasSuffix(s, p) == Len(s) >= Len(p) /\ SubSeq(s, Len(s) - Len(p) + 1, Len(s)) = p

\* strings.Join(args, " ")
RECURSIVE Join(_)
Join(args) ==
    IF args = <<>> THEN ""
    ELSE IF Len(args) = 1 THEN args[1]
    ELSE args[1] \o " " \o Join(Tail(args))

-----------------------------------------------------------------------------
(* A handler's response: the state it leaves persisted, the limactl        *)
(* commands it ran (argument list and whether the command exited 0), the   *)
(* error diagnostics it reported and the warnings/errors it only logged.   *)

Cmd(argv, ok) == [argv |-> argv, ok |-> ok]

Diag(summary, detail) == [summary |-> summary, detail |-> detail]

Resp(st, cmds, diags, logs) == [state |-> st, cmds |-> cmds, diags |-> diags, logs |-> logs]

-----------------------------------------------------------------------------
(* lima_disk *)

DefaultFormat == "qcow2"

DiskNames == {"data", "models"}

MaxSize == 3

DiskFormats == {DefaultFormat, "raw"}

\* A declared disk: name and size are Required, format is Optional, id is
\* computed (unknown in a Create plan, written here as null).
DiskConfigs ==
    { [name |-> Some(n), size |-> Some(s), format |-> f, id |-> Null] :
        n \in DiskNames, s \in 1..MaxSize, f \in {Null} \cup {Some(x) : x \in DiskFormats} }

\* the plan of a declared disk: the static default stands in for a null format
DiskPlan(config) ==
    [config EXCEPT !.format = IF IsNull(config.format) THEN Some(DefaultFormat) ELSE config.format]

DiskPlans == {DiskPlan(config) : config \in DiskConfigs}

DiskSizeFlag(size) == "--size=" \o Itoa(ValueNum(size)) \o "G"

DiskCreateArgs(data) ==
    <<"disk", "create", ValueString(data.name)>>
    \o <<DiskSizeFlag(data.size)>>
    \o (IF ~IsNull(data.format) THEN <<"--format=" \o ValueString(data.format)>> ELSE <<>>)
    \o <<"--tty=false">>

\* mutant: the created disk is persisted without its identifier
DiskCreateNoId(data, ok) ==
    IF ~ok
    THEN Resp(<<>>, <<Cmd(DiskCreateArgs(data), FALSE)>>,
              <<Diag("Failed to create Lima disk", "limactl " \o Join(DiskCreateArgs(data)))>>,
              <<>>)
    ELSE Resp(<<data>>, <<Cmd(DiskCreateArgs(data), TRUE)>>, <<>>, <<>>)

\* LimaDiskResource.Create; ok: exit status of "limactl disk create"
DiskCreate(data, ok) ==
    LET args == DiskCreateArgs(data) IN
    IF ~ok
    THEN Resp(<<>>, <<Cmd(args, FALSE)>>,
              <<Diag("Failed to create Lima disk", "limactl " \o Join(args))>>, <<>>)
    ELSE Resp(<<[data EXCEPT !.id = data.name]>>, <<Cmd(args, TRUE)>>, <<>>, <<>>)

\* mutant: the import sets the name and leaves the identifier unset
DiskImportNameOnly(id) ==
    Resp(<<[name |-> Some(id), size |-> Null, format |-> Null, id |-> Null]>>, <<>>, <<>>, <<>>)

\* LimaDiskResource.ImportState: the import identifier goes to the attributes
\* name and id; every other attribute of the new state is null
DiskImportState(id) ==
    Resp(<<[name |-> Some(id), size |-> Null, format |-> Null, id |-> Some(id)]>>, <<>>, <<>>, <<>>)

-----------------------------------------------------------------------------
(* The listing "limactl [disk] list --json": one JSON object per line.     *)
(* A listing is the sequence of the lines of the command's output.         *)

ObjectLine(n) == "{\"name\":\"" \o n \o "\"}"

\* json.Unmarshal([]byte(line), &struct{ Name string `json:"name"` }), for the
\* lines of ListingLines: an object line yields its name, the empty object
\* yields the zero name, an array or a text that is no JSON yields an error.
Unmarshal(line) ==
    IF line = "{}" THEN [err |-> FALSE, name |-> ""]
    ELSE IF HasPrefix(line, "{\"name\":\"") /\ HasSuffix(line, "\"}") /\ Len(line) >= 11
    THEN [err |-> FALSE, name |-> SubSeq(line, 10, Len(line) - 2)]
    ELSE [err |-> TRUE, name |-> ""]

\* strings.Split(strings.TrimSpace(output), "\n"): leading and trailing empty
\* lines go; the empty output splits into one empty line.
RECURSIVE TrimLeft(_)
TrimLeft(lines) ==
    IF lines # <<>> /\ Head(lines) = "" THEN TrimLeft(Tail(lines)) ELSE lines

RECURSIVE TrimRight(_)
TrimRight(lines) ==
    IF lines # <<>> /\ lines[Len(lines)] = ""
    THEN TrimRight(SubSeq(lines, 1, Len(lines) - 1))
    ELSE lines

SplitLines(output) ==
    LET t == TrimRight(TrimLeft(output)) IN IF t = <<>> THEN <<"">> ELSE t

\* mutant: the loop stops after the first non-empty line, match or not
RECURSIVE ScanFirstLineOnly(_, _)
ScanFirstLineOnly(lines, name) ==
    IF lines = <<>> THEN [err |-> FALSE, found |-> FALSE, line |-> ""]
    ELSE IF Head(lines) = "" THEN ScanFirstLineOnly(Tail(lines), name)
    ELSE IF Unmarshal(Head(lines)).err
    THEN [err |-> TRUE, found |-> FALSE, line |-> Head(lines)]
    ELSE [err |-> FALSE, found |-> Unmarshal(Head(lines)).name = name, line |-> Head(lines)]

\* mutant: a line that does not unmarshal is skipped like an empty line
RECURSIVE ScanSkipsBadLines(_, _)
ScanSkipsBadLines(lines, name) ==
    IF lines = <<>> THEN [err |-> FALSE, found |-> FALSE, line |-> ""]
    ELSE IF Head(lines) = "" \/ Unmarshal(Head(lines)).err
    THEN ScanSkipsBadLines(Tail(lines), name)
    ELSE IF Unmarshal(Head(lines)).name = name
    THEN [err |-> FALSE, found |-> TRUE, line |-> Head(lines)]
    ELSE ScanSkipsBadLines(Tail(lines), name)

\* The scan loop of Read: skip empty lines, fail on the first line that does
\* not unmarshal, stop at the first line whose name is the stored name.
RECURSIVE ScanLines(_, _)
ScanLines(lines, name) ==
    IF lines = <<>> THEN [err |-> FALSE, found |-> FALSE, line |-> ""]
    ELSE IF Head(lines) = "" THEN ScanLines(Tail(lines), name)
    ELSE IF Unmarshal(Head(lines)).err
    THEN [err |-> TRUE, found |-> FALSE, line |-> Head(lines)]
    ELSE IF Unmarshal(Head(lines)).name = name
    THEN [err |-> FALSE, found |-> TRUE, line |-> Head(lines)]
    ELSE ScanLines(Tail(lines), name)

\* mutant: a listing command that fails counts as a listing without the disk
DiskReadPrunesOnListFailure(data, listOk, output) ==
    IF ~listOk
    THEN Resp(<<>>, <<Cmd(<<"disk", "list", "--json">>, FALSE)>>, <<>>, <<>>)
    ELSE IF ScanLines(SplitLines(output), ValueString(data.name)).err
    THEN Resp(<<data>>, <<Cmd(<<"disk", "list", "--json">>, TRUE)>>,
              <<Diag("Failed to parse disk list JSON",
                     "Line: " \o ScanLines(SplitLines(output), ValueString(data.name)).line)>>,
              <<>>)
    ELSE IF ~ScanLines(SplitLines(output), ValueString(data.name)).found
    THEN Resp(<<>>, <<Cmd(<<"disk", "list", "--json">>, TRUE)>>, <<>>, <<>>)
    ELSE Resp(<<data>>, <<Cmd(<<"disk", "list", "--json">>, TRUE)>>, <<>>, <<>>)

\* LimaDiskResource.Read; listOk: exit status of "limactl disk list --json",
\* output: the lines it printed
DiskRead(data, listOk, output) ==
    LET cmd  == Cmd(<<"disk", "list", "--json">>, listOk)
        scan == ScanLines(SplitLines(output), ValueString(data.name))
    IN  IF ~listOk
        THEN Resp(<<data>>, <<cmd>>, <<Diag("Failed to list Lima disks", "")>>, <<>>)
        ELSE IF scan.err
        THEN Resp(<<data>>, <<cmd>>,
                  <<Diag("Failed to parse disk list JSON", "Line: " \o scan.line)>>, <<>>)
        ELSE IF ~scan.found
        THEN Resp(<<>>, <<cmd>>, <<>>, <<>>)
        ELSE Resp(<<data>>, <<cmd>>, <<>>, <<>>)

DiskResizeArgs(plan) ==
    <<"disk", "resize", ValueString(plan.name)>> \o <<DiskSizeFlag(plan.size)>> \o <<"--tty=false">>

\* mutant: the size check is missing, every changed size is passed to resize
DiskUpdateNoCheck(plan, st, ok) ==
    IF plan.size # st.size
    THEN IF ~ok
         THEN Resp(<<st>>, <<Cmd(DiskResizeArgs(plan), FALSE)>>,
                   <<Diag("Failed to resize Lima disk", "limactl " \o Join(DiskResizeArgs(plan)))>>,
                   <<>>)
         ELSE Resp(<<plan>>, <<Cmd(DiskResizeArgs(plan), TRUE)>>, <<>>, <<>>)
    ELSE Resp(<<plan>>, <<>>, <<>>, <<>>)

\* mutant: the size check compares the wrong way round
DiskUpdateFlipped(plan, st, ok) ==
    IF plan.size # st.size
    THEN IF ValueNum(plan.size) > ValueNum(st.size)
         THEN Resp(<<st>>, <<>>, <<Diag("Cannot decrease disk size", "")>>, <<>>)
         ELSE IF ~ok
         THEN Resp(<<st>>, <<Cmd(DiskResizeArgs(plan), FALSE)>>,
                   <<Diag("Failed to resize Lima disk", "limactl " \o Join(DiskResizeArgs(plan)))>>,
                   <<>>)
         ELSE Resp(<<plan>>, <<Cmd(DiskResizeArgs(plan), TRUE)>>, <<>>, <<>>)
    ELSE Resp(<<plan>>, <<>>, <<>>, <<>>)

\* mutant: an unchanged size is passed to resize as well
DiskUpdateResizesEqual(plan, st, ok) ==
    IF ValueNum(plan.size) < ValueNum(st.size)
    THEN Resp(<<st>>, <<>>, <<Diag("Cannot decrease disk size", "")>>, <<>>)
    ELSE IF ~ok
    THEN Resp(<<st>>, <<Cmd(DiskResizeArgs(plan), FALSE)>>,
              <<Diag("Failed to resize Lima disk", "limactl " \o Join(DiskResizeArgs(plan)))>>,
              <<>>)
    ELSE Resp(<<plan>>, <<Cmd(DiskResizeArgs(plan), TRUE)>>, <<>>, <<>>)

\* mutant: the plan is saved although the resize failed
DiskUpdateSavesOnFailure(plan, st, ok) ==
    IF plan.size # st.size
    THEN IF ValueNum(plan.size) < ValueNum(st.size)
         THEN Resp(<<st>>, <<>>, <<Diag("Cannot decrease disk size", "")>>, <<>>)
         ELSE Resp(<<plan>>, <<Cmd(DiskResizeArgs(plan), ok)>>,
                   IF ~ok
                   THEN <<Diag("Failed to resize Lima disk", "limactl " \o Join(DiskResizeArgs(plan)))>>
                   ELSE <<>>,
                   <<>>)
    ELSE Resp(<<plan>>, <<>>, <<>>, <<>>)

\* LimaDiskResource.Update; ok: exit status of "limactl disk resize"
DiskUpdate(plan, st, ok) ==
    IF plan.size # st.size
    THEN IF ValueNum(plan.size) < ValueNum(st.size)
         THEN Resp(<<st>>, <<>>, <<Diag("Cannot decrease disk size", "")>>, <<>>)
         ELSE IF ~ok
         THEN Resp(<<st>>, <<Cmd(DiskResizeArgs(plan), FALSE)>>,
                   <<Diag("Failed to resize Lima disk", "limactl " \o Join(DiskResizeArgs(plan)))>>,
                   <<>>)
         ELSE Resp(<<plan>>, <<Cmd(DiskResizeArgs(plan), TRUE)>>, <<>>, <<>>)
    ELSE Resp(<<plan>>, <<>>, <<>>, <<>>)

DiskDeleteArgs(data) == <<"disk", "delete", ValueString(data.name)>>

\* LimaDiskResource.Delete; ok: exit status of "limactl disk delete".  The
\* framework removes the resource from the state when Delete reports no error.
DiskDelete(data, ok) ==
    IF ~ok
    THEN Resp(<<data>>, <<Cmd(DiskDeleteArgs(data), FALSE)>>,
              <<Diag("Failed to delete Lima disk", "limactl " \o Join(DiskDeleteArgs(data)))>>,
              <<>>)
    ELSE Resp(<<>>, <<Cmd(DiskDeleteArgs(data), TRUE)>>, <<>>, <<>>)

-----------------------------------------------------------------------------
(* lima_instance *)

InstBase ==
    [name |-> Some("default"), template |-> Null, arch |-> Null, containerd |-> Null,
     cpus |-> Null, disk |-> Null, memory |-> Null, dns |-> Null, mount |-> Null,
     mount_inotify |-> Some(FALSE), mount_none |-> Some(FALSE), mount_type |-> Null,
     mount_writable |-> Some(FALSE), network |-> Null, plain |-> Some(FALSE),
     rosetta |-> Some(FALSE), video |-> Some(FALSE), vm_type |-> Null,
     disks |-> Some(<<>>), id |-> Null]

DisksModel(n, mp) == [name |-> Some(n), mount_point |-> Some(mp)]

\* the values a planned instance may give a field instead of InstBase's (disk
\* and memory are set by the test configurations only, together with cpus)
InstAlt ==
    [name |-> {Some("docker")},
     template |-> {Some("docker"), Some("httpd"), Some("./my.yaml"),
                   Some("http://example.com/t"), Some("https://example.com/alpine.yaml")},
     arch |-> {Some("aarch64")},
     containerd |-> {Some("user")},
     cpus |-> {Some(2), Some(4)},
     disk |-> {},
     memory |-> {},
     dns |-> {Some(<<>>), Some(<<"1.1.1.1">>)},
     mount |-> {Some(<<"/tmp", "/src:w">>)},
     mount_inotify |-> {Some(TRUE)},
     mount_none |-> {Some(TRUE)},
     mount_type |-> {Some("9p")},
     mount_writable |-> {Some(TRUE)},
     network |-> {Some(<<"lima:shared">>)},
     plain |-> {Some(TRUE)},
     rosetta |-> {Some(TRUE)},
     video |-> {Some(TRUE)},
     vm_type |-> {Some("qemu")},
     disks |-> {Some(<<DisksModel("data", "/mnt/data"), DisksModel("models", "/mnt/models")>>)}]

\* the configurations of the acceptance tests that set several fields at once
InstTestPlans ==
    {[InstBase EXCEPT !.cpus = Some(2), !.memory = Some(4), !.disk = Some(100)],
     [InstBase EXCEPT !.cpus = Some(4), !.memory = Some(8), !.disk = Some(100)],
     [InstBase EXCEPT !.template = Some("docker"), !.mount_none = Some(TRUE),
                      !.disks = Some(<<DisksModel("data", "/mnt/data")>>)]}

\* Planned instances: InstBase, InstBase with one field set otherwise, and the
\* test configurations.  id is computed (unknown in a Create plan: null here).
InstPlans ==
    {InstBase}
    \cup UNION {{[InstBase EXCEPT ![f] = v] : v \in InstAlt[f]} : f \in DOMAIN InstAlt}
    \cup InstTestPlans

InstNames == {ValueString(p.name) : p \in InstPlans}

MutableFields ==
    {"cpus", "disk", "memory", "dns", "mount", "mount_inotify", "mount_type",
     "mount_writable", "network", "rosetta", "video"}

\* the attributes whose plan modifier is RequiresReplace
ReplaceFields == {"name", "template", "arch", "containerd", "mount_none", "plain", "vm_type"}

\* mutant: only the first element of a list is given its flag
PrefixedFirstOnly(flag, elems) ==
    IF elems = <<>> THEN <<>> ELSE <<flag \o Head(elems)>>

RECURSIVE Prefixed(_, _)
Prefixed(flag, elems) ==
    IF elems = <<>> THEN <<>> ELSE <<flag \o Head(elems)>> \o Prefixed(flag, Tail(elems))

\* json.Marshal([]diskJSON)
RECURSIVE DisksJSONItems(_)
DisksJSONItems(disks) ==
    IF disks = <<>> THEN ""
    ELSE "{\"name\":\"" \o ValueString(Head(disks).name)
         \o "\",\"mountPoint\":\"" \o ValueString(Head(disks).mount_point) \o "\"}"
         \o (IF Len(disks) > 1 THEN "," ELSE "") \o DisksJSONItems(Tail(disks))

DisksJSON(disks) == "[" \o DisksJSONItems(disks) \o "]"

TemplateArg(template) ==
    IF ~HasPrefix(template, "http") /\ ~HasSuffix(template, ".yaml")
    THEN "template://" \o template
    ELSE template

InstCreateArgs(data) ==
    <<"create">>
    \o (IF ~IsNull(data.name) THEN <<"--name=" \o ValueString(data.name)>> ELSE <<>>)
    \o (IF ~IsNull(data.arch) THEN <<"--arch=" \o ValueString(data.arch)>> ELSE <<>>)
    \o (IF ~IsNull(data.containerd)
        THEN <<"--containerd=" \o ValueString(data.containerd)>> ELSE <<>>)
    \o (IF ~IsNull(data.cpus) THEN <<"--cpus=" \o Itoa(ValueNum(data.cpus))>> ELSE <<>>)
    \o (IF ~IsNull(data.disk) THEN <<"--disk=" \o Itoa(ValueNum(data.disk))>> ELSE <<>>)
    \o (IF ~IsNull(data.memory) THEN <<"--memory=" \o Itoa(ValueNum(data.memory))>> ELSE <<>>)
    \o (IF ~IsNull(data.dns) /\ Len(Elements(data.dns)) > 0
        THEN Prefixed("--dns=", Elements(data.dns)) ELSE <<>>)
    \o (IF ~IsNull(data.mount) /\ Len(Elements(data.mount)) > 0
        THEN Prefixed("--mount=", Elements(data.mount)) ELSE <<>>)
    \o (IF ValueBool(data.mount_inotify) THEN <<"--mount-inotify">> ELSE <<>>)
    \o (IF ValueBool(data.mount_none) THEN <<"--mount-none">> ELSE <<>>)
    \o (IF ~IsNull(data.mount_type)
        THEN <<"--mount-type=" \o ValueString(data.mount_type)>> ELSE <<>>)
    \o (IF ValueBool(data.mount_writable) THEN <<"--mount-writable">> ELSE <<>>)
    \o (IF ~IsNull(data.network) /\ Len(Elements(data.network)) > 0
        THEN Prefixed("--network=", Elements(data.network)) ELSE <<>>)
    \o (IF ValueBool(data.plain) THEN <<"--plain">> ELSE <<>>)
    \o (IF ValueBool(data.rosetta) THEN <<"--rosetta">> ELSE <<>>)
    \o (IF ValueBool(data.video) THEN <<"--video">> ELSE <<>>)
    \o (IF ~IsNull(data.vm_type) THEN <<"--vm-type=" \o ValueString(data.vm_type)>> ELSE <<>>)
    \o (IF ~IsNull(data.disks) /\ Len(Elements(data.disks)) > 0
        THEN <<"--set=.additionalDisks=" \o DisksJSON(Elements(data.disks))>> ELSE <<>>)
    \o <<"--tty=false">>
    \o (IF ~IsNull(data.template) THEN <<TemplateArg(ValueString(data.template))>> ELSE <<>>)

\* mutant: the cleanup delete runs after a failed create as well
InstanceCreateCleansUpAlways(data, okCreate, okStart, okDelete) ==
    LET args   == InstCreateArgs(data)
        start  == <<"start", ValueString(data.name)>>
        delete == <<"delete", ValueString(data.name)>>
    IN  IF ~okCreate
        THEN Resp(<<>>, <<Cmd(args, FALSE), Cmd(delete, okDelete)>>,
                  <<Diag("Failed to create Lima instance", "limactl " \o Join(args))>>, <<>>)
        ELSE IF ~okStart
        THEN Resp(<<>>,
                  <<Cmd(args, TRUE), Cmd(start, FALSE), Cmd(delete, okDelete)>>,
                  <<Diag("Failed to start Lima instance", "limactl " \o Join(start))>>,
                  <<"Start failed, cleaning up created instance">>)
        ELSE Resp(<<[data EXCEPT !.id = data.name]>>,
                  <<Cmd(args, TRUE), Cmd(start, TRUE)>>, <<>>, <<>>)

\* mutant: a start failure is reported without the cleanup delete
InstanceCreateNoCleanup(data, okCreate, okStart, okDelete) ==
    LET args  == InstCreateArgs(data)
        start == <<"start", ValueString(data.name)>>
    IN  IF ~okCreate
        THEN Resp(<<>>, <<Cmd(args, FALSE)>>,
                  <<Diag("Failed to create Lima instance", "limactl " \o Join(args))>>, <<>>)
        ELSE IF ~okStart
        THEN Resp(<<>>, <<Cmd(args, TRUE), Cmd(start, FALSE)>>,
                  <<Diag("Failed to start Lima instance", "limactl " \o Join(start))>>, <<>>)
        ELSE Resp(<<[data EXCEPT !.id = data.name]>>,
                  <<Cmd(args, TRUE), Cmd(start, TRUE)>>, <<>>, <<>>)

\* mutant: a start failure after a successful create is only logged
InstanceCreateIgnoresStart(data, okCreate, okStart, okDelete) ==
    LET args  == InstCreateArgs(data)
        start == <<"start", ValueString(data.name)>>
    IN  IF ~okCreate
        THEN Resp(<<>>, <<Cmd(args, FALSE)>>,
                  <<Diag("Failed to create Lima instance", "limactl " \o Join(args))>>, <<>>)
        ELSE Resp(<<[data EXCEPT !.id = data.name]>>,
                  <<Cmd(args, TRUE), Cmd(start, okStart)>>, <<>>,
                  IF ~okStart THEN <<"Failed to start Lima instance">> ELSE <<>>)

\* LimaInstanceResource.Create; okCreate, okStart, okDelete: exit status of
\* "limactl create", "limactl start" and of the cleanup "limactl delete"
InstanceCreate(data, okCreate, okStart, okDelete) ==
    LET args   == InstCreateArgs(data)
        start  == <<"start", ValueString(data.name)>>
        delete == <<"delete", ValueString(data.name)>>
    IN  IF ~okCreate
        THEN Resp(<<>>, <<Cmd(args, FALSE)>>,
                  <<Diag("Failed to create Lima instance", "limactl " \o Join(args))>>, <<>>)
        ELSE IF ~okStart
        THEN Resp(<<>>,
                  <<Cmd(args, TRUE), Cmd(start, FALSE), Cmd(delete, okDelete)>>,
                  <<Diag("Failed to start Lima instance", "limactl " \o Join(start))>>,
                  <<"Start failed, cleaning up created instance">>
                  \o (IF ~okDelete
                      THEN <<"Failed to clean up instance after start failure">> ELSE <<>>))
        ELSE Resp(<<[data EXCEPT !.id = data.name]>>,
                  <<Cmd(args, TRUE), Cmd(start, TRUE)>>, <<>>, <<>>)

\* LimaInstanceResource.ImportState: the import identifier goes to the
\* attributes name and id; every other attribute of the new state is null
InstanceImportState(id) ==
    Resp(<<[f \in DOMAIN InstBase |-> IF f \in {"name", "id"} THEN Some(id) ELSE Null]>>,
         <<>>, <<>>, <<>>)

\* LimaInstanceResource.Read; listOk: exit status of "limactl list --json",
\* output: the lines it printed
InstanceRead(data, listOk, output) ==
    LET cmd  == Cmd(<<"list", "--json">>, listOk)
        scan == ScanLines(SplitLines(output), ValueString(data.name))
    IN  IF ~listOk
        THEN Resp(<<data>>, <<cmd>>, <<Diag("Failed to list Lima instances", "")>>, <<>>)
        ELSE IF scan.err
        THEN Resp(<<data>>, <<cmd>>,
                  <<Diag("Failed to parse instance list JSON", "Line: " \o scan.line)>>, <<>>)
        ELSE IF ~scan.found
        THEN Resp(<<>>, <<cmd>>, <<>>, <<>>)
        ELSE Resp(<<data>>, <<cmd>>, <<>>, <<>>)

\* mutant: a toggle that changes is given its flag whichever way it changes
InstEditFlagsEitherWay(plan, st) ==
    (IF ~IsNull(plan.cpus) /\ plan.cpus # st.cpus
     THEN <<"--cpus=" \o Itoa(ValueNum(plan.cpus))>> ELSE <<>>)
    \o (IF ~IsNull(plan.disk) /\ plan.disk # st.disk
        THEN <<"--disk=" \o Itoa(ValueNum(plan.disk))>> ELSE <<>>)
    \o (IF ~IsNull(plan.memory) /\ plan.memory # st.memory
        THEN <<"--memory=" \o Itoa(ValueNum(plan.memory))>> ELSE <<>>)
    \o (IF plan.dns # st.dns /\ ~IsNull(plan.dns) /\ Len(Elements(plan.dns)) > 0
        THEN Prefixed("--dns=", Elements(plan.dns)) ELSE <<>>)
    \o (IF plan.mount # st.mount /\ ~IsNull(plan.mount) /\ Len(Elements(plan.mount)) > 0
        THEN Prefixed("--mount=", Elements(plan.mount)) ELSE <<>>)
    \o (IF plan.mount_inotify # st.mount_inotify THEN <<"--mount-inotify">> ELSE <<>>)
    \o (IF ~IsNull(plan.mount_type) /\ plan.mount_type # st.mount_type
        THEN <<"--mount-type=" \o ValueString(plan.mount_type)>> ELSE <<>>)
    \o (IF plan.mount_writable # st.mount_writable THEN <<"--mount-writable">> ELSE <<>>)
    \o (IF plan.network # st.network /\ ~IsNull(plan.network) /\ Len(Elements(plan.network)) > 0
        THEN Prefixed("--network=", Elements(plan.network)) ELSE <<>>)
    \o (IF plan.rosetta # st.rosetta THEN <<"--rosetta">> ELSE <<>>)
    \o (IF plan.video # st.video THEN <<"--video">> ELSE <<>>)

\* the flags of "limactl edit": changed attributes that limactl edit supports
InstEditFlags(plan, st) ==
    (IF ~IsNull(plan.cpus) /\ plan.cpus # st.cpus
     THEN <<"--cpus=" \o Itoa(ValueNum(plan.cpus))>> ELSE <<>>)
    \o (IF ~IsNull(plan.disk) /\ plan.disk # st.disk
        THEN <<"--disk=" \o Itoa(ValueNum(plan.disk))>> ELSE <<>>)
    \o (IF ~IsNull(plan.memory) /\ plan.memory # st.memory
        THEN <<"--memory=" \o Itoa(ValueNum(plan.memory))>> ELSE <<>>)
    \o (IF plan.dns # st.dns /\ ~IsNull(plan.dns) /\ Len(Elements(plan.dns)) > 0
        THEN Prefixed("--dns=", Elements(plan.dns)) ELSE <<>>)
    \o (IF plan.mount # st.mount /\ ~IsNull(plan.mount) /\ Len(Elements(plan.mount)) > 0
        THEN Prefixed("--mount=", Elements(plan.mount)) ELSE <<>>)
    \o (IF plan.mount_inotify # st.mount_inotify /\ ValueBool(plan.mount_inotify)
        THEN <<"--mount-inotify">> ELSE <<>>)
    \o (IF ~IsNull(plan.mount_type) /\ plan.mount_type # st.mount_type
        THEN <<"--mount-type=" \o ValueString(plan.mount_type)>> ELSE <<>>)
    \o (IF plan.mount_writable # st.mount_writable /\ ValueBool(plan.mount_writable)
        THEN <<"--mount-writable">> ELSE <<>>)
    \o (IF plan.network # st.network /\ ~IsNull(plan.network) /\ Len(Elements(plan.network)) > 0
        THEN Prefixed("--network=", Elements(plan.network)) ELSE <<>>)
    \o (IF plan.rosetta # st.rosetta /\ ValueBool(plan.rosetta)
        THEN <<"--rosetta">> ELSE <<>>)
    \o (IF plan.video # st.video /\ ValueBool(plan.video) THEN <<"--video">> ELSE <<>>)

InstEditArgs(plan, st) == <<"edit", ValueString(plan.name)>> \o InstEditFlags(plan, st)

\* mutant: a start that fails is tried a second time
EditCycleRetriesStart(plan, st, args, okStop, okEdit, okStart) ==
    LET stop  == <<"stop", ValueString(plan.name)>>
        start == <<"start", ValueString(plan.name)>>
    IN  IF ~okStop
        THEN Resp(<<st>>, <<Cmd(stop, FALSE)>>,
                  <<Diag("Failed to stop Lima instance for edit", "limactl " \o Join(stop))>>,
                  <<>>)
        ELSE IF ~okEdit
        THEN Resp(<<st>>, <<Cmd(stop, TRUE), Cmd(args, FALSE)>>,
                  <<Diag("Failed to edit Lima instance", "limactl " \o Join(args))>>, <<>>)
        ELSE IF ~okStart
        THEN Resp(<<st>>,
                  <<Cmd(stop, TRUE), Cmd(args, TRUE), Cmd(start, FALSE), Cmd(start, FALSE)>>,
                  <<Diag("Failed to start Lima instance after edit",
                         "limactl " \o Join(start))>>, <<>>)
        ELSE Resp(<<plan>>, <<Cmd(stop, TRUE), Cmd(args, TRUE), Cmd(start, TRUE)>>, <<>>, <<>>)

\* the stop, edit, start sequence of Update
EditCycle(plan, st, args, okStop, okEdit, okStart) ==
    LET stop  == <<"stop", ValueString(plan.name)>>
        start == <<"start", ValueString(plan.name)>>
    IN  IF ~okStop
        THEN Resp(<<st>>, <<Cmd(stop, FALSE)>>,
                  <<Diag("Failed to stop Lima instance for edit", "limactl " \o Join(stop))>>,
                  <<>>)
        ELSE IF ~okEdit
        THEN Resp(<<st>>, <<Cmd(stop, TRUE), Cmd(args, FALSE)>>,
                  <<Diag("Failed to edit Lima instance", "limactl " \o Join(args))>>, <<>>)
        ELSE IF ~okStart
        THEN Resp(<<st>>, <<Cmd(stop, TRUE), Cmd(args, TRUE), Cmd(start, FALSE)>>,
                  <<Diag("Failed to start Lima instance after edit",
                         "limactl " \o Join(start))>>, <<>>)
        ELSE Resp(<<plan>>, <<Cmd(stop, TRUE), Cmd(args, TRUE), Cmd(start, TRUE)>>, <<>>, <<>>)

\* mutant: without an edit the attached disks of the state are kept
InstanceUpdateKeepsDisks(plan, st, okStop, okEdit, okStart) ==
    IF Len(InstEditArgs(plan, st)) > 2
    THEN EditCycle(plan, st, InstEditArgs(plan, st), okStop, okEdit, okStart)
    ELSE Resp(<<[plan EXCEPT !.disks = st.disks]>>, <<>>, <<>>, <<>>)

\* mutant: the test for "no flags" is off by one, the cycle always runs
InstanceUpdateAlwaysEdits(plan, st, okStop, okEdit, okStart) ==
    IF Len(InstEditArgs(plan, st)) > 1
    THEN EditCycle(plan, st, InstEditArgs(plan, st), okStop, okEdit, okStart)
    ELSE Resp(<<plan>>, <<>>, <<>>, <<>>)

\* mutant: the plan is saved although a command of the cycle failed
InstanceUpdateSavesOnFailure(plan, st, okStop, okEdit, okStart) ==
    IF Len(InstEditArgs(plan, st)) > 2
    THEN [EditCycle(plan, st, InstEditArgs(plan, st), okStop, okEdit, okStart)
            EXCEPT !.state = <<plan>>]
    ELSE Resp(<<plan>>, <<>>, <<>>, <<>>)

\* LimaInstanceResource.Update; okStop, okEdit, okStart: exit status of
\* "limactl stop", "limactl edit" and "limactl start"
InstanceUpdate(plan, st, okStop, okEdit, okStart) ==
    IF Len(InstEditArgs(plan, st)) > 2
    THEN EditCycle(plan, st, InstEditArgs(plan, st), okStop, okEdit, okStart)
    ELSE Resp(<<plan>>, <<>>, <<>>, <<>>)

\* mutant: when stop fails Delete ends there and reports nothing
InstanceDeleteEndsOnStop(data, okStop, okDelete) ==
    LET stop   == <<"stop", ValueString(data.name)>>
        delete == <<"delete", ValueString(data.name)>>
    IN  IF ~okStop
        THEN Resp(<<>>, <<Cmd(stop, FALSE)>>, <<>>,
                  <<"Failed to stop Lima instance (may already be stopped)">>)
        ELSE IF ~okDelete
        THEN Resp(<<data>>, <<Cmd(stop, TRUE), Cmd(delete, FALSE)>>,
                  <<Diag("Failed to delete Lima instance", "limactl " \o Join(delete))>>, <<>>)
        ELSE Resp(<<>>, <<Cmd(stop, TRUE), Cmd(delete, TRUE)>>, <<>>, <<>>)

\* mutant: Delete gives up when stop fails
InstanceDeleteAbortsOnStop(data, okStop, okDelete) ==
    LET stop   == <<"stop", ValueString(data.name)>>
        delete == <<"delete", ValueString(data.name)>>
    IN  IF ~okStop
        THEN Resp(<<data>>, <<Cmd(stop, FALSE)>>,
                  <<Diag("Failed to stop Lima instance", "limactl " \o Join(stop))>>, <<>>)
        ELSE IF ~okDelete
        THEN Resp(<<data>>, <<Cmd(stop, TRUE), Cmd(delete, FALSE)>>,
                  <<Diag("Failed to delete Lima instance", "limactl " \o Join(delete))>>, <<>>)
        ELSE Resp(<<>>, <<Cmd(stop, TRUE), Cmd(delete, TRUE)>>, <<>>, <<>>)

\* LimaInstanceResource.Delete; okStop, okDelete: exit status of "limactl stop"
\* and "limactl delete".  The framework removes the resource from the state
\* when Delete reports no error.
InstanceDelete(data, okStop, okDelete) ==
    LET stop   == <<"stop", ValueString(data.name)>>
        delete == <<"delete", ValueString(data.name)>>
        logs   == IF ~okStop
                  THEN <<"Failed to stop Lima instance (may already be stopped)">> ELSE <<>>
    IN  IF ~okDelete
        THEN Resp(<<data>>, <<Cmd(stop, okStop), Cmd(delete, FALSE)>>,
                  <<Diag("Failed to delete Lima instance", "limactl " \o Join(delete))>>, logs)
        ELSE Resp(<<>>, <<Cmd(stop, okStop), Cmd(delete, TRUE)>>, <<>>, logs)

-----------------------------------------------------------------------------
(* limactl, seen from outside: the object named by the resource is absent, *)
(* or it exists ("present" for a disk; "stopped" or "running" for an       *)
(* instance).  Any command may exit non-zero and then changes nothing.     *)

Sub(argv) == IF argv[1] = "disk" THEN argv[2] ELSE argv[1]

\* whether the command can have exited the way cmd.ok says
Possible(e, cmd) ==
    cmd.ok =>
        CASE Sub(cmd.argv) = "create" -> e = "absent"
          [] Sub(cmd.argv) \in {"start", "stop", "edit", "resize"} -> e # "absent"
          [] OTHER -> TRUE

After(e, cmd) ==
    IF ~cmd.ok THEN e
    ELSE CASE Sub(cmd.argv) = "create" -> IF cmd.argv[1] = "disk" THEN "present" ELSE "stopped"
           [] Sub(cmd.argv) = "start" -> "running"
           [] Sub(cmd.argv) = "stop" -> "stopped"
           [] Sub(cmd.argv) = "delete" -> "absent"
           [] OTHER -> e

ExtStates(t) == IF t = "lima_disk" THEN {"absent", "present"} ELSE {"absent", "stopped", "running"}

\* the listing names the object exactly when limactl has it
Lists(output, name) == \E i \in 1..Len(output) : output[i] = ObjectLine(name)

RECURSIVE PossibleRun(_, _)
PossibleRun(e, cmds) ==
    IF cmds = <<>> THEN TRUE
    ELSE Possible(e, Head(cmds)) /\ PossibleRun(After(e, Head(cmds)), Tail(cmds))

RECURSIVE AfterRun(_, _)
AfterRun(e, cmds) == IF cmds = <<>> THEN e ELSE AfterRun(After(e, Head(cmds)), Tail(cmds))

\* limactl as the Delete handler takes it to be, with no failure for any other
\* reason: stop fails on an instance that is not running, every command fails
\* on an object that is not there, create fails on one that is, and every
\* other command exits 0
Works(e, cmd) ==
    CASE Sub(cmd.argv) = "create" -> e = "absent"
      [] Sub(cmd.argv) = "stop" -> e = "running"
      [] Sub(cmd.argv) \in {"start", "edit", "resize", "delete"} -> e # "absent"
      [] OTHER -> TRUE

RECURSIVE AsAssumed(_, _)
AsAssumed(e, cmds) ==
    IF cmds = <<>> THEN TRUE
    ELSE (Head(cmds).ok <=> Works(e, Head(cmds))) /\ AsAssumed(After(e, Head(cmds)), Tail(cmds))

-----------------------------------------------------------------------------
(* Inputs *)

MaxLines == 2

\* lines that are no JSON; lines that are JSON (an array, an object with a name)
NotJSONLines == {"not json"}

JSONLines(names) == {"[]"} \cup {ObjectLine(n) : n \in names}

ListingLines(names) == {""} \cup NotJSONLines \cup JSONLines(names)

Listings(names) == UNION {[1..k -> ListingLines(names)] : k \in 0..MaxLines}

\* The exit statuses of a handler's three commands, drawn only for a command
\* that runs (TRUE stands for one that does not): the second runs when the
\* first exits 0; the third runs when the second fails (cleanup: the delete of
\* Create) or when the second exits 0 (the start of Update).
Outcomes(cleanup) ==
    {oks \in [1..3 -> BOOLEAN] :
        /\ ~oks[1] => (oks[2] /\ oks[3])
        /\ IF cleanup THEN oks[2] => oks[3] ELSE ~oks[2] => oks[3]}

-----------------------------------------------------------------------------
(* The steps *)

\* Every command runs under the context of the call (exec.CommandContext): a
\* command in flight when the context is cancelled is killed, and a command
\* made afterwards does not start; both return an error to the handler.
\* Cancels(cmds): the commands of a run during which the cancellation can have
\* come (0: the call was not cancelled).
Cancels(cmds) == {0} \cup {k \in 1..Len(cmds) : \A j \in k..Len(cmds) : ~cmds[j].ok}

\* the configuration of the successful Create that a Read follows immediately
Follows(op) ==
    IF op = "Read" /\ last.op = "Create" /\ last.diags = <<>> THEN last.config ELSE <<>>

\* the call is an Update that follows immediately an Update of the same
\* desired record that failed at its edit or its start, and its commands exit
\* as AsAssumed says
Retries(op, plan, cmds) ==
    /\ op = "Update" /\ last.op = "Update"
    /\ Len(last.cmds) >= 2 /\ ~last.cmds[Len(last.cmds)].ok
    /\ plan = last.plan
    /\ AsAssumed(ext, cmds)

Call(op, config, plan, output, resp) ==
    /\ PossibleRun(ext, resp.cmds)
    /\ ext' = AfterRun(ext, resp.cmds)
    /\ state' = resp.state
    /\ \E cancel \in Cancels(resp.cmds) :
          last' = [op |-> op, prior |-> state, config |-> config, plan |-> plan,
                   output |-> output, cancelled |-> cancel, follows |-> Follows(op),
                   retry |-> (cancel = 0 /\ Retries(op, plan, resp.cmds)),
                   cmds |-> resp.cmds, diags |-> resp.diags, logs |-> resp.logs]
    /\ UNCHANGED rtype

Init ==
    /\ rtype \in {"lima_disk", "lima_instance"}
    /\ state = <<>>
    /\ ext = "absent"
    /\ last = [op |-> "none", prior |-> <<>>, config |-> <<>>, plan |-> <<>>,
               output |-> <<>>, cancelled |-> 0, follows |-> <<>>, retry |-> FALSE,
               cmds |-> <<>>, diags |-> <<>>, logs |-> <<>>]

DiskCreateStep ==
    /\ rtype = "lima_disk"
    /\ state = <<>>
    /\ \E config \in DiskConfigs, ok \in BOOLEAN :
          Call("Create", <<config>>, <<DiskPlan(config)>>, <<>>, DiskCreate(DiskPlan(config), ok))

\* terraform import: the resource is not in the state yet
DiskImportStep ==
    /\ rtype = "lima_disk"
    /\ state = <<>>
    /\ \E id \in DiskNames : Call("Import", <<>>, <<>>, <<>>, DiskImportState(id))

DiskReadStep ==
    /\ rtype = "lima_disk"
    /\ state # <<>>
    /\ \E listOk \in BOOLEAN, output \in Listings(DiskNames) :
          /\ ~listOk => output = <<>>
          /\ listOk => (Lists(output, ValueString(state[1].name)) <=> ext # "absent")
          /\ Call("Read", <<>>, <<>>, output, DiskRead(state[1], listOk, output))

\* name and format carry RequiresReplace and id carries UseStateForUnknown:
\* an Update plan differs from the state in size alone (an imported disk, whose
\* format is null in the state, is replaced and never updated)
DiskUpdateStep ==
    /\ rtype = "lima_disk"
    /\ state # <<>>
    /\ \E p \in {q \in DiskPlans : q.name = state[1].name /\ q.format = state[1].format} :
          \E ok \in BOOLEAN :
             LET plan == [p EXCEPT !.id = state[1].id]
             IN  Call("Update", <<>>, <<plan>>, <<>>, DiskUpdate(plan, state[1], ok))

DiskDeleteStep ==
    /\ rtype = "lima_disk"
    /\ state # <<>>
    /\ \E ok \in BOOLEAN : Call("Delete", <<>>, <<>>, <<>>, DiskDelete(state[1], ok))

InstanceCreateStep ==
    /\ rtype = "lima_instance"
    /\ state = <<>>
    /\ \E data \in InstPlans, oks \in Outcomes(TRUE) :
          Call("Create", <<data>>, <<data>>, <<>>, InstanceCreate(data, oks[1], oks[2], oks[3]))

\* terraform import: the resource is not in the state yet
InstanceImportStep ==
    /\ rtype = "lima_instance"
    /\ state = <<>>
    /\ \E id \in InstNames : Call("Import", <<>>, <<>>, <<>>, InstanceImportState(id))

InstanceReadStep ==
    /\ rtype = "lima_instance"
    /\ state # <<>>
    /\ \E listOk \in BOOLEAN, output \in Listings(InstNames) :
          /\ ~listOk => output = <<>>
          /\ listOk => (Lists(output, ValueString(state[1].name)) <=> ext # "absent")
          /\ Call("Read", <<>>, <<>>, output, InstanceRead(state[1], listOk, output))

\* the attributes of ReplaceFields carry RequiresReplace and id carries
\* UseStateForUnknown: an Update plan agrees with the state on all of them
\* (an imported instance, whose mount_none and plain are null in the state, is
\* replaced and never updated)
InstanceUpdateStep ==
    /\ rtype = "lima_instance"
    /\ state # <<>>
    /\ \E p \in {q \in InstPlans : \A f \in ReplaceFields : q[f] = state[1][f]} :
          \E oks \in Outcomes(FALSE) :
             LET plan == [p EXCEPT !.id = state[1].id]
             IN  Call("Update", <<>>, <<plan>>, <<>>,
                      InstanceUpdate(plan, state[1], oks[1], oks[2], oks[3]))

InstanceDeleteStep ==
    /\ rtype = "lima_instance"
    /\ state # <<>>
    /\ \E okStop \in BOOLEAN, okDelete \in BOOLEAN :
          Call("Delete", <<>>, <<>>, <<>>, InstanceDelete(state[1], okStop, okDelete))

\* somebody runs limactl by hand: the object appears, disappears, stops or starts
OutOfBand ==
    /\ \E e \in ExtStates(rtype) \ {ext} : ext' = e
    /\ last' = [op |-> "OutOfBand", prior |-> state, config |-> <<>>, plan |-> <<>>,
                output |-> <<>>, cancelled |-> 0, follows |-> <<>>, retry |-> FALSE,
                cmds |-> <<>>, diags |-> <<>>, logs |-> <<>>]
    /\ UNCHANGED <<rtype, state>>

Next ==
    \/ DiskCreateStep
    \/ DiskImportStep
    \/ DiskReadStep
    \/ DiskUpdateStep
    \/ DiskDeleteStep
    \/ InstanceCreateStep
    \/ InstanceImportStep
    \/ InstanceReadStep
    \/ InstanceUpdateStep
    \/ InstanceDeleteStep
    \/ OutOfBand

Spec == Init /\ [][Next]_vars

-----------------------------------------------------------------------------
(* Vocabulary of the properties *)

IsDisk == rtype = "lima_disk"

IsInstance == rtype = "lima_instance"

Failed == last.diags # <<>>

NCmds == Len(last.cmds)

\* the k-th command of the last call is "limactl <sub> <name>"
Ran(k, sub, name) == NCmds >= k /\ last.cmds[k].argv = <<sub, name>>

\* the commands of the last call all exited 0, except possibly the last one
StopsAtFirstFailure == \A i \in 1..(NCmds - 1) : last.cmds[i].ok

MutableDiffers == \E f \in MutableFields : last.plan[1][f] # last.prior[1][f]

-----------------------------------------------------------------------------
\* C1: an instance Update in which at least one mutable field differs between
\* the prior and the desired record runs exactly stop, edit, start, in that
\* order, for the instance's name, and stops at the first command that fails.
C1_UpdateRunsStopEditStart ==
    (IsInstance /\ last.op = "Update" /\ MutableDiffers) =>
        /\ NCmds \in 1..3
        /\ Ran(1, "stop", ValueString(last.plan[1].name))
        /\ NCmds >= 2 => SubSeq(last.cmds[2].argv, 1, 2) = <<"edit", ValueString(last.plan[1].name)>>
        /\ NCmds >= 3 => Ran(3, "start", ValueString(last.plan[1].name))
        /\ StopsAtFirstFailure
        /\ NCmds < 3 => ~last.cmds[NCmds].ok

\* C2: an instance Update in which no mutable field differs runs no command
\* and persists the desired record.
C2_NoMutableChangeNoCommand ==
    (IsInstance /\ last.op = "Update" /\ ~MutableDiffers) =>
        /\ last.cmds = <<>>
        /\ ~Failed
        /\ state = last.plan

C2_Witness ==
    /\ IsInstance /\ last.op = "Update" /\ ~MutableDiffers
    /\ last.plan[1].disks # last.prior[1].disks
    /\ state = last.plan

\* C3: an instance Create whose create command succeeds and whose start command
\* fails reports the start failure and runs the cleanup delete; limactl then
\* has no instance (the delete succeeded) or an unstarted one (the delete
\* failed), and in the latter case the failed cleanup is on record in the log.
C3_StartFailureCleanup ==
    (IsInstance /\ last.op = "Create" /\ NCmds >= 2 /\ last.cmds[1].ok /\ ~last.cmds[2].ok) =>
        /\ Len(last.diags) = 1
        /\ last.diags[1].summary = "Failed to start Lima instance"
        /\ NCmds = 3
        /\ Ran(3, "delete", ValueString(last.plan[1].name))
        /\ IF last.cmds[3].ok
           THEN ext = "absent"
           ELSE /\ ext = "stopped"
                /\ \E i \in 1..Len(last.logs) :
                      last.logs[i] = "Failed to clean up instance after start failure"

C3_Witness ==
    /\ IsInstance /\ last.op = "Create" /\ NCmds = 3
    /\ last.cmds[1].ok /\ ~last.cmds[2].ok /\ ~last.cmds[3].ok
    /\ ext = "stopped"

\* C4: a disk Update whose requested size is strictly less than the persisted
\* size fails with the size-decrease error, runs no command and leaves the
\* persisted record unchanged.
C4_DecreaseRejected ==
    (IsDisk /\ last.op = "Update"
        /\ ValueNum(last.plan[1].size) < ValueNum(last.prior[1].size)) =>
        /\ Len(last.diags) = 1
        /\ last.diags[1].summary = "Cannot decrease disk size"
        /\ last.cmds = <<>>
        /\ state = last.prior

C4_Witness ==
    /\ IsDisk /\ last.op = "Update"
    /\ ValueNum(last.plan[1].size) < ValueNum(last.prior[1].size)
    /\ Failed

\* C5: after every Read and every Update of a disk that leaves the record in
\* the state, whether the call succeeded or failed, the persisted name and
\* format are what they were before the call and the size is not smaller.
C5_DiskMonotone ==
    (IsDisk /\ last.op \in {"Read", "Update"} /\ state # <<>>) =>
        /\ state[1].name = last.prior[1].name
        /\ state[1].format = last.prior[1].format
        /\ ValueNum(state[1].size) >= ValueNum(last.prior[1].size)

C5_Witness ==
    /\ IsDisk /\ last.op = "Update" /\ state # <<>>
    /\ ValueNum(state[1].size) > ValueNum(last.prior[1].size)

-----------------------------------------------------------------------------
(* Read *)

StoredName == ValueString(last.prior[1].name)

ListOk == last.op = "Read" /\ last.cmds[1].ok

\* line i of the listing is not empty and does not decode
Undecodable(i) == last.output[i] # "" /\ Unmarshal(last.output[i]).err

Matches(i) == last.output[i] = ObjectLine(StoredName)

SomeLineMatches == \E i \in 1..Len(last.output) : Matches(i)

ParseErrorNaming(i) ==
    /\ Len(last.diags) = 1
    /\ last.diags[1].summary
         = (IF IsDisk THEN "Failed to parse disk list JSON" ELSE "Failed to parse instance list JSON")
    /\ last.diags[1].detail = "Line: " \o last.output[i]

\* C6 as stated: Read with a successful listing removes the record without an
\* error exactly when no listing line has the stored name; when some line
\* matches, the stored record is persisted unchanged.
C6_PruneExactlyWhenNoMatch ==
    ListOk =>
        /\ (state = <<>> /\ ~Failed) <=> ~SomeLineMatches
        /\ SomeLineMatches => state = last.prior

\* C6 as amended: Read with a successful listing removes the record without an
\* error exactly when no listing line has the stored name and every non-empty
\* line decodes; when some line matches, the stored record is persisted
\* unchanged.
C6_PruneWhenNoMatchAndAllDecode ==
    ListOk =>
        /\ (state = <<>> /\ ~Failed)
             <=> (~SomeLineMatches /\ \A i \in 1..Len(last.output) : ~Undecodable(i))
        /\ SomeLineMatches => state = last.prior

C6_Witness ==
    /\ IsInstance /\ ListOk /\ state = <<>> /\ ~Failed
    /\ \E i \in 1..Len(last.output) : last.output[i] \in JSONLines(InstNames)

\* C7 as stated: whenever the listing holds a non-empty line that is not valid
\* JSON, Read fails with a parse error naming such a line and the persisted
\* record is neither removed nor changed, wherever the line stands relative to
\* a line matching the stored name.
C7_BadLineAlwaysFails ==
    (ListOk /\ \E i \in 1..Len(last.output) : last.output[i] \in NotJSONLines) =>
        /\ \E i \in 1..Len(last.output) : last.output[i] \in NotJSONLines /\ ParseErrorNaming(i)
        /\ state = last.prior

\* C7 as amended: whenever the listing holds a non-empty line that is not valid
\* JSON and no line before it matches the stored name, Read fails with a parse
\* error naming the first line that does not decode, and the persisted record
\* is neither removed nor changed; when a matching line stands before every
\* line that does not decode, Read reports no error and keeps the record.
C7_BadLineBeforeMatchFails ==
    ListOk =>
        /\ (\E i \in 1..Len(last.output) :
                last.output[i] \in NotJSONLines /\ \A j \in 1..(i - 1) : ~Matches(j))
            => /\ \E i \in 1..Len(last.output) :
                     /\ Undecodable(i)
                     /\ \A j \in 1..(i - 1) : ~Undecodable(j)
                     /\ ParseErrorNaming(i)
               /\ state = last.prior
        /\ (\E i \in 1..Len(last.output) : Matches(i) /\ \A j \in 1..(i - 1) : ~Undecodable(j))
            => ~Failed /\ state = last.prior

C7_Witness ==
    /\ IsDisk /\ ListOk /\ Len(last.output) = 2
    /\ last.output[1] \in NotJSONLines /\ Matches(2)
    /\ ParseErrorNaming(1)

-----------------------------------------------------------------------------
\* C8: an operation (Create, Read, Update, Delete of either manager) that
\* reports a failure leaves the persisted record as it was before the call; the
\* persisted state changes only in a call that reports no failure, and in a
\* Read only by the removal of the record.
C8_FailureKeepsState ==
    last.op \in {"Create", "Read", "Update", "Delete"} =>
        /\ Failed => state = last.prior
        /\ (last.op = "Read" /\ state # last.prior) => state = <<>>

C8_Witness ==
    /\ IsInstance /\ last.op = "Update" /\ Failed
    /\ NCmds = 3 /\ ~last.cmds[3].ok
    /\ last.plan # last.prior /\ state = last.prior

\* C9: instance Delete always runs stop and then delete for the stored name,
\* whether or not stop fails; it reports an error exactly when the delete
\* command fails (never for a stop failure, which is only logged), and then the
\* record stays in the persisted state.
C9_DeleteStopsThenDeletes ==
    (IsInstance /\ last.op = "Delete") =>
        /\ NCmds = 2
        /\ Ran(1, "stop", StoredName)
        /\ Ran(2, "delete", StoredName)
        /\ Failed <=> ~last.cmds[2].ok
        /\ Failed => (Len(last.diags) = 1
                      /\ last.diags[1].summary = "Failed to delete Lima instance"
                      /\ state = last.prior)
        /\ ~Failed => state = <<>>

C9_Witness ==
    /\ IsInstance /\ last.op = "Delete"
    /\ ~last.cmds[1].ok /\ last.cmds[2].ok
    /\ ~Failed /\ state = <<>>

\* C10: a successful instance Create runs exactly two commands, create and then
\* start for the same name, and persists the desired record with its identifier
\* equal to its name; in no Create does start run unless create exited 0.
C10_CreateThenStart ==
    (IsInstance /\ last.op = "Create") =>
        /\ ~Failed =>
              /\ NCmds = 2
              /\ last.cmds[1].argv[1] = "create"
              /\ last.cmds[1].argv[2] = "--name=" \o ValueString(last.plan[1].name)
              /\ Ran(2, "start", ValueString(last.plan[1].name))
              /\ last.cmds[1].ok /\ last.cmds[2].ok
              /\ state = <<[last.plan[1] EXCEPT !.id = last.plan[1].name]>>
              /\ state[1].id = state[1].name
        /\ \A i \in 1..NCmds :
              last.cmds[i].argv[1] = "start" => (i = 2 /\ last.cmds[1].ok)

C10_Witness ==
    /\ IsInstance /\ last.op = "Create" /\ ~Failed
    /\ state # <<>> /\ state[1].name = Some("docker") /\ state[1].id = Some("docker")

-----------------------------------------------------------------------------
\* C11: a Read of a disk that follows a successful Create immediately, against
\* a listing that holds the disk, leaves a persisted record whose name and
\* size are the declared ones, whose format is the declared one (qcow2 when
\* none was declared) and whose identifier is the name.
C11_CreateThenRead ==
    (IsDisk /\ ListOk /\ last.follows # <<>> /\ SomeLineMatches) =>
        /\ state # <<>>
        /\ state[1].name = last.follows[1].name
        /\ state[1].size = last.follows[1].size
        /\ state[1].format
             = (IF IsNull(last.follows[1].format) THEN Some("qcow2") ELSE last.follows[1].format)
        /\ state[1].id = state[1].name

C11_Witness ==
    /\ IsDisk /\ ListOk /\ last.follows # <<>> /\ SomeLineMatches /\ ~Failed
    /\ IsNull(last.follows[1].format)
    /\ state # <<>> /\ state[1].format = Some("qcow2") /\ state[1].id = Some(StoredName)

\* C12: a disk Update whose requested size equals the persisted size runs no
\* command, reports no error and persists the desired record.
C12_EqualSizeNoCommand ==
    (IsDisk /\ last.op = "Update" /\ last.plan[1].size = last.prior[1].size) =>
        /\ last.cmds = <<>>
        /\ ~Failed
        /\ state = last.plan

C12_Witness ==
    /\ IsDisk /\ last.op = "Update" /\ last.plan[1].size = last.prior[1].size
    /\ last.cmds = <<>> /\ state = last.plan

\* C13: a disk Update whose requested size is strictly greater than the
\* persisted size runs exactly one command, "disk resize <name> --size=<new>G
\* --tty=false"; when it exits 0 the desired record is persisted, and when it
\* fails one error is reported and the persisted record (its size included)
\* stays what it was.
C13_IncreaseResizesOnce ==
    (IsDisk /\ last.op = "Update"
        /\ ValueNum(last.plan[1].size) > ValueNum(last.prior[1].size)) =>
        /\ NCmds = 1
        /\ last.cmds[1].argv
             = <<"disk", "resize", StoredName,
                 "--size=" \o Itoa(ValueNum(last.plan[1].size)) \o "G", "--tty=false">>
        /\ last.cmds[1].ok => (~Failed /\ state = last.plan)
        /\ ~last.cmds[1].ok =>
              /\ Len(last.diags) = 1
              /\ last.diags[1].summary = "Failed to resize Lima disk"
              /\ state = last.prior

C13_Witness ==
    /\ IsDisk /\ last.op = "Update"
    /\ ValueNum(last.plan[1].size) > ValueNum(last.prior[1].size)
    /\ ~last.cmds[1].ok /\ Failed
    /\ state[1].size = last.prior[1].size

\* C14: whenever a disk or an instance is in the persisted state, its
\* identifier is set and equals its name (after Create, after Import, and
\* after every Read and Update that follows).
C14_IdEqualsName ==
    state # <<>> => (~IsNull(state[1].id) /\ state[1].id = state[1].name)

C14_Witness ==
    /\ IsDisk /\ last.op = "Read" /\ ~Failed
    /\ state # <<>> /\ IsNull(state[1].size)
    /\ state[1].id = state[1].name

\* C15 as stated: the persisted record goes from absent to present only by a
\* successful Create, and from present to absent only by a successful Delete
\* or by a Read whose listing has no line of the stored name; a successful
\* Create or Delete does make that move, and an Update keeps the record
\* present.
C15_PresenceCreateDeleteRead ==
    /\ (last.prior = <<>> /\ state # <<>>) => (last.op = "Create" /\ ~Failed)
    /\ (last.prior # <<>> /\ state = <<>>) =>
          ((last.op = "Delete" /\ ~Failed) \/ (ListOk /\ ~SomeLineMatches))
    /\ (last.op = "Create" /\ ~Failed) => (last.prior = <<>> /\ state # <<>>)
    /\ (last.op = "Delete" /\ ~Failed) => (last.prior # <<>> /\ state = <<>>)
    /\ last.op = "Update" => (last.prior # <<>> /\ state # <<>>)

\* C15 as amended: as stated, with Import as a second way from absent to
\* present.
C15_PresenceCreateImportDeleteRead ==
    /\ (last.prior = <<>> /\ state # <<>>) =>
          ((last.op = "Create" /\ ~Failed) \/ last.op = "Import")
    /\ (last.prior # <<>> /\ state = <<>>) =>
          ((last.op = "Delete" /\ ~Failed) \/ (ListOk /\ ~SomeLineMatches))
    /\ (last.op = "Create" /\ ~Failed) => (last.prior = <<>> /\ state # <<>>)
    /\ last.op = "Import" => (last.prior = <<>> /\ state # <<>>)
    /\ (last.op = "Delete" /\ ~Failed) => (last.prior # <<>> /\ state = <<>>)
    /\ last.op = "Update" => (last.prior # <<>> /\ state # <<>>)

C15_Witness ==
    /\ IsInstance /\ last.op = "Import"
    /\ last.prior = <<>> /\ state # <<>> /\ state[1].name = Some("docker")

-----------------------------------------------------------------------------
(* The flags of the instance commands *)

\* the flag that "limactl edit" is given for a mutable field
EditFlag ==
    [cpus |-> "--cpus=", disk |-> "--disk=", memory |-> "--memory=", dns |-> "--dns=",
     mount |-> "--mount=", mount_inotify |-> "--mount-inotify", mount_type |-> "--mount-type=",
     mount_writable |-> "--mount-writable", network |-> "--network=", rosetta |-> "--rosetta",
     video |-> "--video"]

\* the flag that "limactl create" is given for a field
CreateFlag ==
    [name |-> "--name=", arch |-> "--arch=", containerd |-> "--containerd=", cpus |-> "--cpus=",
     disk |-> "--disk=", memory |-> "--memory=", dns |-> "--dns=", mount |-> "--mount=",
     mount_inotify |-> "--mount-inotify", mount_none |-> "--mount-none",
     mount_type |-> "--mount-type=", mount_writable |-> "--mount-writable",
     network |-> "--network=", plain |-> "--plain", rosetta |-> "--rosetta",
     video |-> "--video", vm_type |-> "--vm-type=", disks |-> "--set=.additionalDisks="]

StringFields == {"name", "arch", "containerd", "mount_type", "vm_type"}

NumberFields == {"cpus", "disk", "memory"}

ListFields == {"dns", "mount", "network"}

Toggles == {"mount_inotify", "mount_none", "mount_writable", "plain", "rosetta", "video"}

\* the positions of argv, after the subcommand, that start with the given flag
At(argv, flag) == {i \in 2..Len(argv) : HasPrefix(argv[i], flag)}

\* argv[i] is the flag of field f
IsFlagOf(arg, f) == IF f \in Toggles THEN arg = EditFlag[f] ELSE HasPrefix(arg, EditFlag[f])

\* C16: the edit command of an instance Update is "edit <name>" followed only
\* by flags of mutable fields whose value differs between the prior and the
\* desired record, a toggle's flag only when the toggle goes from false to
\* true; when cpus alone changes, from 2 to 4, it is "edit <name> --cpus=4".
C16_EditFlagsOnlyForChanges ==
    (IsInstance /\ last.op = "Update" /\ NCmds >= 2) =>
        LET argv  == last.cmds[2].argv
            plan  == last.plan[1]
            prior == last.prior[1]
        IN  /\ SubSeq(argv, 1, 2) = <<"edit", ValueString(plan.name)>>
            /\ \A i \in 3..Len(argv) :
                  \E f \in MutableFields :
                     /\ IsFlagOf(argv[i], f)
                     /\ plan[f] # prior[f]
                     /\ f \in Toggles => (prior[f] = Some(FALSE) /\ plan[f] = Some(TRUE))
            /\ (plan = [prior EXCEPT !.cpus = Some(4)] /\ prior.cpus = Some(2))
                  => argv = <<"edit", ValueString(plan.name), "--cpus=4">>

C16_Witness ==
    /\ IsInstance /\ last.op = "Update" /\ NCmds = 3
    /\ last.prior[1].cpus = Some(2)
    /\ last.plan[1] = [last.prior[1] EXCEPT !.cpus = Some(4)]
    /\ last.cmds[2].argv = <<"edit", "default", "--cpus=4">>

\* what C17 says of every field but the attached disks
CreateArgsBasics ==
    LET argv == last.cmds[1].argv
        data == last.plan[1]
    IN  /\ argv[1] = "create"
        /\ \A f \in StringFields :
              IF IsNull(data[f]) THEN At(argv, CreateFlag[f]) = {}
              ELSE \E i \in 2..Len(argv) :
                      At(argv, CreateFlag[f]) = {i} /\ argv[i] = CreateFlag[f] \o data[f][1]
        /\ \A f \in NumberFields :
              IF IsNull(data[f]) THEN At(argv, CreateFlag[f]) = {}
              ELSE \E i \in 2..Len(argv) :
                      At(argv, CreateFlag[f]) = {i} /\ argv[i] = CreateFlag[f] \o Itoa(data[f][1])
        /\ \A f \in ListFields :
              /\ Cardinality(At(argv, CreateFlag[f])) = Len(Elements(data[f]))
              /\ \A k \in 1..Len(Elements(data[f])) :
                    \E i \in 2..Len(argv) : argv[i] = CreateFlag[f] \o Elements(data[f])[k]
        /\ \A f \in Toggles :
              (\E i \in 2..Len(argv) : argv[i] = CreateFlag[f]) <=> data[f] = Some(TRUE)
        /\ \E i \in 2..Len(argv) : argv[i] = "--tty=false"
        /\ ~IsNull(data.template) => HasSuffix(argv[Len(argv)], data.template[1])
        /\ data = [InstBase EXCEPT !.name = data.name]
              => argv = <<"create", "--name=" \o data.name[1], "--tty=false">>

\* C17 as stated: the create command carries "create", one named flag for
\* every populated scalar field, one flag per element of every non-empty list
\* field (the attached disks included), a bare flag for a toggle exactly when
\* the toggle is true, always --tty=false, and the template (when set) last; a
\* record with only a name gives "create --name=<name> --tty=false".
C17_FlagPerListElement ==
    (IsInstance /\ last.op = "Create") =>
        /\ CreateArgsBasics
        /\ Cardinality(At(last.cmds[1].argv, CreateFlag.disks))
             = Len(Elements(last.plan[1].disks))

\* C17 as amended: as stated for the lists dns, mount and network; a non-empty
\* list of attached disks gives one single flag, --set=.additionalDisks=
\* followed by a JSON array with one {"name", "mountPoint"} object per disk.
C17_FlagPerElementOneForDisks ==
    (IsInstance /\ last.op = "Create") =>
        /\ CreateArgsBasics
        /\ LET argv  == last.cmds[1].argv
               disks == Elements(last.plan[1].disks)
           IN  IF disks = <<>> THEN At(argv, CreateFlag.disks) = {}
               ELSE \E i \in 2..Len(argv) :
                       /\ At(argv, CreateFlag.disks) = {i}
                       /\ HasPrefix(argv[i], CreateFlag.disks \o "[{\"name\":\"")
                       /\ HasSuffix(argv[i], "\"}]")
                       /\ \A k \in 1..Len(disks) :
                             \E a \in 1..Len(argv[i]) :
                                LET obj == "{\"name\":\"" \o disks[k].name[1]
                                           \o "\",\"mountPoint\":\"" \o disks[k].mount_point[1]
                                           \o "\"}"
                                IN  /\ a + Len(obj) - 1 <= Len(argv[i])
                                    /\ SubSeq(argv[i], a, a + Len(obj) - 1) = obj

C17_Witness ==
    /\ IsInstance /\ last.op = "Create" /\ ~Failed
    /\ Len(Elements(last.plan[1].disks)) = 2
    /\ last.cmds[1].argv
         = <<"create", "--name=default",
             "--set=.additionalDisks=[{\"name\":\"data\",\"mountPoint\":\"/mnt/data\"},{\"name\":\"models\",\"mountPoint\":\"/mnt/models\"}]",
             "--tty=false">>

\* C18: the template of an instance Create is passed to the create command
\* with "template://" before it exactly when it neither starts with http:// or
\* https:// nor ends in .yaml, and is passed as it is otherwise.
C18_TemplateLocatorRule ==
    (IsInstance /\ last.op = "Create" /\ ~IsNull(last.plan[1].template)) =>
        LET t    == last.plan[1].template[1]
            argv == last.cmds[1].argv
        IN  argv[Len(argv)]
              = (IF ~(HasPrefix(t, "http://") \/ HasPrefix(t, "https://")) /\ ~HasSuffix(t, ".yaml")
                 THEN "template://" \o t
                 ELSE t)

\* C19: no call runs a limactl subcommand twice; an instance Create or Update
\* runs at most three commands, an instance Delete at most two, every disk
\* call and every Read at most one; a call that fails reports one error.
C19_NoRetryOneError ==
    last.op \in {"Create", "Read", "Update", "Delete", "Import"} =>
        /\ \A i \in 1..NCmds : \A j \in 1..NCmds :
              i # j => Sub(last.cmds[i].argv) # Sub(last.cmds[j].argv)
        /\ NCmds <= (IF IsInstance /\ last.op \in {"Create", "Update"} THEN 3
                     ELSE IF IsInstance /\ last.op = "Delete" THEN 2
                     ELSE 1)
        /\ Failed => Len(last.diags) = 1

C19_Witness ==
    /\ IsInstance /\ last.op = "Create" /\ Failed
    /\ NCmds = 3 /\ last.cmds[3].ok
    /\ Len(last.diags) = 1

\* C20: a call that is cancelled while one of its commands is in flight has
\* that command end in an error and reports a failure, also when the command
\* is the stop of an instance Delete.
C20_CancelledCallFails ==
    last.cancelled > 0 =>
        /\ ~last.cmds[last.cancelled].ok
        /\ Failed

C20_Witness ==
    /\ IsInstance /\ last.op = "Delete" /\ last.cancelled = 1
    /\ last.cmds[1].argv[1] = "stop"
    /\ last.logs = <<"Failed to stop Lima instance (may already be stopped)">>
    /\ Len(last.diags) = 1 /\ last.diags[1].summary = "Failed to delete Lima instance"
    /\ state = last.prior

-----------------------------------------------------------------------------
\* C21: an Update that follows immediately an Update of the same desired
\* record that failed at its edit or its start (the instance is stopped, the
\* prior record persisted), with limactl failing stop on a stopped instance and
\* failing nothing else, ends with the instance running and the desired record
\* persisted.
C21_RetryRecovers ==
    last.retry =>
        /\ ~Failed
        /\ ext = "running"
        /\ state = last.plan

\* C22: in an instance Create the delete command runs only as the third
\* command, after a create that exited 0 and a start that failed; when the
\* create command fails it is the only command of the call, an error is
\* reported and nothing is persisted.
C22_DeleteOnlyAfterOwnCreate ==
    (IsInstance /\ last.op = "Create") =>
        /\ \A i \in 1..NCmds :
              last.cmds[i].argv[1] = "delete" =>
                 /\ i = 3
                 /\ last.cmds[1].argv[1] = "create" /\ last.cmds[1].ok
                 /\ last.cmds[2].argv[1] = "start" /\ ~last.cmds[2].ok
        /\ ~last.cmds[1].ok =>
              /\ NCmds = 1
              /\ Failed
              /\ state = <<>>

C22_Witness ==
    /\ IsInstance /\ last.op = "Create"
    /\ NCmds = 1 /\ ~last.cmds[1].ok
    /\ ext = "running" /\ state = <<>>

\* C23: an instance Update in which the attached disks are the only field
\* that differs between the prior and the desired record runs no command,
\* reports no error and persists the desired record, new disk list included.
C23_DisksOnlyChangeNoCommand ==
    (IsInstance /\ last.op = "Update"
        /\ last.plan[1].disks # last.prior[1].disks
        /\ last.plan[1] = [last.prior[1] EXCEPT !.disks = last.plan[1].disks]) =>
        /\ last.cmds = <<>>
        /\ ~Failed
        /\ state = last.plan
        /\ state[1].disks # last.prior[1].disks

C23_Witness ==
    /\ IsInstance /\ last.op = "Update" /\ last.cmds = <<>>
    /\ last.prior[1].disks = Some(<<>>)
    /\ last.plan[1] = [last.prior[1] EXCEPT !.disks = last.plan[1].disks]
    /\ Len(Elements(state[1].disks)) = 2
    /\ ext = "running"

====
